---- MODULE Spec2Model ----
(***************************************************************************)
(* Model of the Excel merger: the projector merge_files, the validator     *)
(* validate_data with its pandera schema, remove_duplicates, and the       *)
(* configuration load / column selection part of main.                     *)
(***************************************************************************)
EXTENDS Integers, Sequences, FiniteSets, TLC

VARIABLES
    files,      \* the list handed to merge_files (sorted in place by it)
    margs,      \* arguments of the last merge_files call, or NoCall
    mres,       \* outcome of the last merge_files call, or NoCall
    table,      \* the DataFrame handed to validate_data
    vres,       \* the pair validate_data returned, or NoCall
    lst,        \* the list handed to remove_duplicates
    dd,         \* what remove_duplicates returned for lst, or NoCall
    dd2,        \* what it returned when applied to that result, or NoCall
    ss,         \* st.session_state
    pc,         \* where the current run of main is, "idle" between runs
    run,        \* the widgets' values and the locals of the current run of main
    download,   \* the configuration file the user last downloaded
    reported,   \* what the current run has shown with st.success / st.error
    runs        \* number of runs of main so far

mergeVars == <<files, margs, mres>>
validVars == <<table, vres>>
dedupVars == <<lst, dd, dd2>>
sessionVars == <<ss, pc, run, download, reported, runs>>
vars == <<files, margs, mres, table, vres, lst, dd, dd2,
          ss, pc, run, download, reported, runs>>

----------------------------------------------------------------------------
(* Values *)

None == "#None"          \* Python None
NaN == "#NaN"            \* a missing spreadsheet cell (pandas NaN)
NoCall == [status |-> "nocall"]

----------------------------------------------------------------------------
(* Bounds *)

MaxFiles == 2            \* length of the uploaded file list
MaxTokens == 2           \* whitespace separated words of a file name
MaxHeaders == 2          \* length of the requested field list
MaxTableRows == 2        \* rows of a table handed to validate_data
MaxLen == 4              \* length of a list handed to remove_duplicates
MaxRuns == 2             \* runs of main in one behaviour

----------------------------------------------------------------------------
(* Strings that are compared: file names are sequences of code points *)

Space == 32

IsSpace(ch) == ch = Space

RECURSIVE Split(_)
\* str.split(): the maximal runs of non-whitespace characters, in order
Split(s) ==
    IF s = <<>> THEN <<>>
    ELSE IF IsSpace(Head(s)) THEN Split(Tail(s))
    ELSE LET rest == Split(Tail(s))
         IN  IF Len(s) = 1 \/ IsSpace(s[2])
             THEN <<<<Head(s)>>>> \o rest
             ELSE <<<<Head(s)>> \o Head(rest)>> \o Tail(rest)

RECURSIVE StrLess(_, _)
\* Python's < on str: lexicographic by code point, a proper prefix is smaller
StrLess(a, b) ==
    IF b = <<>> THEN FALSE
    ELSE IF a = <<>> THEN TRUE
    ELSE IF Head(a) # Head(b) THEN Head(a) < Head(b)
    ELSE StrLess(Tail(a), Tail(b))

StrLeq(a, b) == ~StrLess(b, a)

----------------------------------------------------------------------------
(* remove_duplicates *)

Contains(seq, x) == \E i \in 1..Len(seq) : seq[i] = x

RECURSIVE KeepLast(_)
KeepLast(l) ==
    IF l = <<>> THEN <<>>
    ELSE IF Contains(Tail(l), Head(l)) THEN KeepLast(Tail(l))
    ELSE <<Head(l)>> \o KeepLast(Tail(l))

RECURSIVE FromKeys(_, _)
\* dict.fromkeys(l): a key is inserted where it is first seen and stays there
FromKeys(l, keys) ==
    IF l = <<>> THEN keys
    ELSE FromKeys(Tail(l), IF Contains(keys, Head(l)) THEN keys ELSE Append(keys, Head(l)))

remove_duplicates_keep_last(l) == KeepLast(l)

\* list(dict.fromkeys(lst))
remove_duplicates(l) == FromKeys(l, <<>>)

----------------------------------------------------------------------------
(* merge_files *)

ByFilename == "By filename"
ByLastWord == "By last word in filename"
Orders == {ByFilename, ByLastWord}

Max2(a, b) == IF a >= b THEN a ELSE b

MaxOf(S) == CHOOSE x \in S : \A y \in S : y <= x

\* file.name.split()[-1]
LastWord(name) == Split(name)[Len(Split(name))]

SortKeyFullName(order, name) == name

\* the key of the sort the policy selects
SortKey(order, name) == IF order = ByLastWord THEN LastWord(name) ELSE name

RECURSIVE InsertByKey(_, _, _)
InsertByKey(f, s, order) ==
    IF s = <<>> THEN <<f>>
    ELSE IF StrLess(SortKey(order, f.name), SortKey(order, Head(s).name))
         THEN <<f>> \o s
         ELSE <<Head(s)>> \o InsertByKey(f, Tail(s), order)

RECURSIVE StableSort(_, _)
\* list.sort(key=...): stable, ascending by key
StableSort(s, order) ==
    IF s = <<>> THEN <<>>
    ELSE InsertByKey(s[Len(s)], StableSort(SubSeq(s, 1, Len(s) - 1), order), order)

\* lines 72-75: the list is sorted in place only under the two known policies
SortFiles(fs, order) == IF order \in Orders THEN StableSort(fs, order) ELSE fs

\* df.iloc[:, j]
Column(df, j) == [i \in 1..Len(df.rows) |-> df.rows[i][j + 1]]

\* .astype(str) on a cell: a missing cell becomes the text "nan"
AsStr(cell) == IF cell = NaN THEN "nan" ELSE cell

\* .fillna('') on a cell
FillNa(cell) == IF cell = NaN THEN "" ELSE cell

DictGetOrEmpty(keys, values, k) ==
    LET hits == {i \in 1..Len(keys) : keys[i] = k}
    IN  IF hits = {} THEN "" ELSE values[MaxOf(hits)]

\* dict(zip(keys, values)).get(k, None): the last pair with that key wins
DictGet(keys, values, k) ==
    LET hits == {i \in 1..Len(keys) : keys[i] = k}
    IN  IF hits = {} THEN None ELSE values[MaxOf(hits)]

\* lines 86-97: the output row of one file
ProjectRow(file, h, c, selected) ==
    LET headers == [i \in 1..Len(file.rows) |-> AsStr(Column(file, h)[i])]
        data_values == [i \in 1..Len(file.rows) |-> AsStr(FillNa(Column(file, c)[i]))]
    IN  <<file.name>> \o [k \in 1..Len(selected) |-> DictGet(headers, data_values, selected[k])]

Returned(columns, rows, shown) ==
    [status |-> "returned", exc |-> "", columns |-> columns, rows |-> rows,
     reported |-> shown]

Raised(exc) ==
    [status |-> "raised", exc |-> exc, columns |-> <<>>, rows |-> <<>>,
     reported |-> <<>>]

RECURSIVE MergeLoopSkipping(_, _, _, _, _, _)
MergeLoopSkipping(fs, idx, h, c, selected, merged_data) ==
    IF idx > Len(fs)
    THEN IF idx = 1
         THEN Raised("UnboundLocalError")
         ELSE Returned(<<"Filename">> \o selected, merged_data, <<>>)
    ELSE IF fs[idx].ncols <= Max2(h, c)
    THEN MergeLoopSkipping(fs, idx + 1, h, c, selected, merged_data)
    ELSE MergeLoopSkipping(fs, idx + 1, h, c, selected,
                   Append(merged_data, ProjectRow(fs[idx], h, c, selected)))

RECURSIVE MergeLoop(_, _, _, _, _, _)
\* lines 77-101: the loop over the sorted files and the table built after it.
\* The name headers is bound only inside the loop body.
MergeLoop(fs, idx, h, c, selected, merged_data) ==
    IF idx > Len(fs)
    THEN IF idx = 1
         THEN Raised("UnboundLocalError")
         ELSE Returned(<<"Filename">> \o selected, merged_data, <<>>)
    ELSE IF fs[idx].ncols <= Max2(h, c)
    THEN Returned(<<>>, <<>>, <<fs[idx].name>>)
    ELSE MergeLoop(fs, idx + 1, h, c, selected,
                   Append(merged_data, ProjectRow(fs[idx], h, c, selected)))

\* a name without any word makes the key lambda of line 73 raise IndexError
KeyRaises(fs, order) ==
    order = ByLastWord /\ \E i \in 1..Len(fs) : Split(fs[i].name) = <<>>

\* the list after the call: sorted in place, or untouched when a key raised
FilesAfter(fs, order) == IF KeyRaises(fs, order) THEN fs ELSE SortFiles(fs, order)

merge_files(fs, h, c, selected, order) ==
    IF KeyRaises(fs, order)
    THEN Raised("IndexError")
    ELSE MergeLoop(SortFiles(fs, order), 1, h, c, selected, <<>>)

\* merged_df.empty
IsEmptyFrame(df) == df.columns = <<>> \/ df.rows = <<>>

----------------------------------------------------------------------------
(* Inputs of the projector *)

Words == {<<65>>, <<66>>}

RECURSIVE NamesOf(_)
\* the file names made of n words separated by one space
NamesOf(n) ==
    IF n = 1 THEN Words
    ELSE {w \o <<Space>> \o r : w \in Words, r \in NamesOf(n - 1)}

FileNames == UNION {NamesOf(n) : n \in 1..MaxTokens}

Cells == {NaN, "A"}
ColCounts == {1, 2}
RowCounts == {1, 2}
ColIndexes == {0, 1}
FieldNames == {"A", "nan"}

SeqsUpTo(S, n) == UNION {[1..k -> S] : k \in 0..n}

Sheets ==
    UNION {[ncols : {n}, rows : [1..r -> [1..n -> Cells]]] :
           n \in ColCounts, r \in RowCounts}

PlainSheets == {[ncols |-> n, rows |-> <<[j \in 1..n |-> "A"]>>] : n \in ColCounts}

\* one name, every sheet
ContentFiles == {[name |-> <<65>>, ncols |-> s.ncols, rows |-> s.rows] : s \in Sheets}

\* every name, one sheet per column count
NamedFiles == {[name |-> nm, ncols |-> s.ncols, rows |-> s.rows] :
               nm \in FileNames, s \in PlainSheets}

----------------------------------------------------------------------------
(* Python and JSON values of the configuration *)

PyNone == [py |-> "none", n |-> 0, s |-> "", a |-> <<>>]
PyInt(n) == [py |-> "int", n |-> n, s |-> "", a |-> <<>>]
PyStr(s) == [py |-> "str", n |-> 0, s |-> s, a |-> <<>>]
PyList(a) == [py |-> "list", n |-> 0, s |-> "", a |-> a]

JNull == [j |-> "null", n |-> 0, s |-> "", a |-> <<>>]
JNumber(n) == [j |-> "number", n |-> n, s |-> "", a |-> <<>>]
JString(s) == [j |-> "string", n |-> 0, s |-> s, a |-> <<>>]
JArray(a) == [j |-> "array", n |-> 0, s |-> "", a |-> a]

\* json.dumps on a value
ToJson(v) ==
    CASE v.py = "int" -> JNumber(v.n)
      [] v.py = "str" -> JString(v.s)
      [] v.py = "list" -> JArray(v.a)
      [] v.py = "none" -> JNull

\* json.load on a value
FromJson(x) ==
    CASE x.j = "number" -> PyInt(x.n)
      [] x.j = "string" -> PyStr(x.s)
      [] x.j = "array" -> PyList(x.a)
      [] x.j = "null" -> PyNone

\* the content of a configuration file
NoFile == [kind |-> "nofile", members |-> <<>>, value |-> JNull]
Garbage == [kind |-> "garbage", members |-> <<>>, value |-> JNull]
JsonObject(members) == [kind |-> "object", members |-> members, value |-> JNull]
JsonValue(x) == [kind |-> "value", members |-> <<>>, value |-> x]

\* json.dumps(config) of a dict
json_dumps(config) == JsonObject([k \in DOMAIN config |-> ToJson(config[k])])

\* bool(x) of a loaded non-dict value
Truthy(v) ==
    CASE v.py = "int" -> v.n # 0
      [] v.py = "str" -> v.s # ""
      [] v.py = "list" -> v.a # <<>>
      [] v.py = "none" -> FALSE

----------------------------------------------------------------------------
(* st.session_state and the locals of a run of main *)

Unset == "#unset"        \* the key is not in st.session_state

NoTable == [columns |-> <<>>, rows |-> <<>>]

InitialSession ==
    [data_header_idx |-> PyNone, data_col_idx |-> PyNone, selected_headers |-> <<>>,
     config_loaded |-> FALSE, order |-> Unset,
     has_merged |-> FALSE, merged_df |-> NoTable, sorted_headers |-> <<>>]

EmptyRun ==
    [config_file |-> NoFile, uploaded_files |-> <<>>, loaded |-> FALSE,
     picked |-> FALSE, data_header_idx |-> 0, data_col_idx |-> 0,
     selected_headers |-> <<>>, sorted_headers |-> <<>>, order |-> ""]

IdleSession ==
    /\ ss = InitialSession
    /\ pc = "idle"
    /\ run = EmptyRun
    /\ download = NoFile
    /\ reported = <<>>
    /\ runs = 0

----------------------------------------------------------------------------
(* Actions of the projector *)

IdleMerge ==
    /\ files = <<>>
    /\ margs = NoCall
    /\ mres = NoCall

IdleValidate ==
    /\ table = NoCall
    /\ vres = NoCall

IdleDedup ==
    /\ lst = <<>>
    /\ dd = NoCall
    /\ dd2 = NoCall

InitMerge == IdleMerge /\ IdleValidate /\ IdleDedup /\ IdleSession

\* one more file is in the list
Upload(f) ==
    /\ margs = NoCall
    /\ Len(files) < MaxFiles
    /\ files' = Append(files, f)
    /\ UNCHANGED <<margs, mres, validVars, dedupVars, sessionVars>>

\* merge_files(files, h, c, selected, order)
CallMergeFiles(h, c, selected, order) ==
    /\ margs = NoCall
    /\ margs' = [status |-> "called", files |-> files, h |-> h, c |-> c,
                 selected |-> selected, order |-> order]
    /\ mres' = merge_files(files, h, c, selected, order)
    /\ files' = FilesAfter(files, order)
    /\ UNCHANGED <<validVars, dedupVars, sessionVars>>

UploadContent == \E f \in ContentFiles : Upload(f)

UploadNamed == \E f \in NamedFiles : Upload(f)

\* the files of ContentFiles share one name, so both policies give the same
\* order (the sort is stable); the order policies are exercised by MergeOneField
MergeAny ==
    \E h \in ColIndexes, c \in ColIndexes, sel \in SeqsUpTo(FieldNames, MaxHeaders) :
        CallMergeFiles(h, c, sel, ByFilename)

MergeOneField ==
    \E h \in ColIndexes, c \in ColIndexes, o \in Orders : CallMergeFiles(h, c, <<"A">>, o)

NextProject == UploadContent \/ MergeAny

NextOrder == UploadNamed \/ MergeOneField

SpecProject == InitMerge /\ [][NextProject]_vars

SpecOrder == InitMerge /\ [][NextOrder]_vars

Spec == SpecProject

----------------------------------------------------------------------------
(* Claims about merge_files *)

Called == margs # NoCall

Enough(f) == f.ncols > Max2(margs.h, margs.c)

Count(seq, x) == Cardinality({i \in 1..Len(seq) : seq[i] = x})

NamesIn(fs) == [i \in 1..Len(fs) |-> fs[i].name]

RowNames == [i \in 1..Len(mres.rows) |-> mres.rows[i][1]]

\* C1: whenever every file of the list (the empty list included) has more
\* columns than max(data_header_idx, data_col_idx), merge_files returns a table
\* with one row per file, row i carrying the name of the i-th file of the list
\* as ordered by the policy, under the header Filename + the requested fields.
C1_OneRowPerFile ==
    (Called /\ \A i \in 1..Len(margs.files) : Enough(margs.files[i]))
    => /\ mres.status = "returned"
       /\ mres.columns = <<"Filename">> \o margs.selected
       /\ Len(mres.rows) = Len(margs.files)
       /\ RowNames = NamesIn(SortFiles(margs.files, margs.order))

\* the same for the lists that hold at least one file
C1_NonEmptyLists ==
    (Called /\ margs.files # <<>> /\ \A i \in 1..Len(margs.files) : Enough(margs.files[i]))
    => /\ mres.status = "returned"
       /\ mres.columns = <<"Filename">> \o margs.selected
       /\ Len(mres.rows) = Len(margs.files)
       /\ RowNames = NamesIn(SortFiles(margs.files, margs.order))
       /\ \A i \in 1..Len(mres.rows) : Len(mres.rows[i]) = Len(mres.columns)

\* the rows of the string-coerced field-name column of f that hold name
Occurrences(f, name) ==
    {r \in 1..Len(f.rows) : IF f.rows[r][margs.h + 1] = NaN
                            THEN name = "nan"
                            ELSE name = f.rows[r][margs.h + 1]}

\* C2: in a returned table, the cell of a requested field is None exactly when
\* the field name does not occur in the file's (string-coerced) field-name
\* column; when it occurs and the value cell of the occurrence that counts (the
\* last one) is missing, the cell is the empty string, which is not None.
C2_AbsentIsNone ==
    (Called /\ mres.status = "returned")
    => \A i \in 1..Len(mres.rows) : \A k \in 1..Len(margs.selected) :
         LET f == files[i]
             occ == Occurrences(f, margs.selected[k])
             cell == mres.rows[i][k + 1]
         IN  /\ (occ = {}) <=> (cell = None)
             /\ (occ # {} /\ f.rows[MaxOf(occ)][margs.c + 1] = NaN) => cell = ""
             /\ (occ # {} /\ f.rows[MaxOf(occ)][margs.c + 1] # NaN)
                   => cell = f.rows[MaxOf(occ)][margs.c + 1]

\* one returned row holds both an absent field and a field whose value is missing
C2_Witness ==
    /\ Called
    /\ mres.status = "returned"
    /\ \E i \in 1..Len(mres.rows) : \E k1, k2 \in 1..Len(margs.selected) :
         /\ mres.rows[i][k1 + 1] = None
         /\ mres.rows[i][k2 + 1] = ""
         /\ Occurrences(files[i], margs.selected[k1]) = {}
         /\ Occurrences(files[i], margs.selected[k2]) # {}

Offending == {i \in 1..Len(files) : ~Enough(files[i])}

\* C3: when some file of the list has no more columns than data_header_idx or
\* data_col_idx, merge_files reports that file and returns the empty table: no
\* row of any file, also not of the files read before the offending one.
C3_NoPartialMerge ==
    (Called /\ \E i \in 1..Len(margs.files) : ~Enough(margs.files[i]))
    => /\ mres.status = "returned"
       /\ mres.rows = <<>>
       /\ mres.columns = <<>>
       /\ IsEmptyFrame(mres)
       /\ Len(mres.reported) = 1
       /\ \E i \in Offending : mres.reported[1] = files[i].name

\* the merge failed on a file that came after a file with enough columns
C3_Witness ==
    /\ Called
    /\ Len(files) >= 2
    /\ Enough(files[1])
    /\ ~Enough(files[2])
    /\ mres.rows = <<>>
    /\ mres.reported = <<files[2].name>>

\* C7: the rows of a returned table are the given files in non-decreasing
\* order of the full file name under "By filename", and of the last
\* whitespace-delimited word of the file name under "By last word in filename".
C7_RowOrder ==
    (Called /\ mres.status = "returned" /\ mres.rows # <<>>)
    => /\ \A n \in FileNames : Count(RowNames, n) = Count(NamesIn(margs.files), n)
       /\ margs.order = ByFilename
            => \A i, j \in 1..Len(RowNames) : i < j => StrLeq(RowNames[i], RowNames[j])
       /\ margs.order = ByLastWord
            => \A i, j \in 1..Len(RowNames) :
                 i < j => StrLeq(LastWord(RowNames[i]), LastWord(RowNames[j]))

\* "A B" then "B A" were given: by last word "B A" (word A) comes before "A B"
C7_Witness ==
    /\ Called
    /\ margs.order = ByLastWord
    /\ NamesIn(margs.files) = <<<<65, 32, 66>>, <<66, 32, 65>>>>
    /\ mres.status = "returned"
    /\ RowNames = <<<<66, 32, 65>>, <<65, 32, 66>>>>

----------------------------------------------------------------------------
(* validate_data: the pandera schema and its lazy validation *)

\* a cell of a DataFrame
Str(s) == [t |-> "str", n |-> 0, s |-> s]
Num(n) == [t |-> "num", n |-> n, s |-> ""]
Null == [t |-> "null", n |-> 0, s |-> ""]

NoIndex == -1            \* the index None of a failure that is not of one row

NoCheck == [kind |-> "none", lo |-> 0, hi |-> 0, allowed |-> {}]
in_range(lo, hi) == [kind |-> "in_range", lo |-> lo, hi |-> hi, allowed |-> {}]
isin(S) == [kind |-> "isin", lo |-> 0, hi |-> 0, allowed |-> S]

\* Column(dtype, check, nullable=...): neither coerce nor required is set, so
\* pandera's defaults hold: no coercion, every column required
SchemaColumn(name, dtype, check, nullable) ==
    [name |-> name, dtype |-> dtype, check |-> check, nullable |-> nullable]

schema == <<
    SchemaColumn("Filename", "object", NoCheck, FALSE),
    SchemaColumn("BIRTH_YEAR", "int32", in_range(1900, 2023), TRUE),
    SchemaColumn("BIRTH_MNTH", "int32", in_range(1, 12), TRUE),
    SchemaColumn("BIRTH_DAY", "int32", in_range(1, 31), TRUE),
    SchemaColumn("BIRTH_WGHT", "float64", in_range(300, 6000), TRUE),
    SchemaColumn("SEX", "int32", isin({1, 2}), TRUE) >>

HasColumn(df, name) == \E j \in 1..Len(df.columns) : df.columns[j] = name

ColumnIndex(df, name) ==
    CHOOSE j \in 1..Len(df.columns) :
        df.columns[j] = name /\ \A i \in 1..(j - 1) : df.columns[i] # name

Series(df, name) == [i \in 1..Len(df.rows) |-> df.rows[i][ColumnIndex(df, name)]]

RECURSIVE Ascending(_)
\* the members of a set of numbers as an ascending sequence
Ascending(S) ==
    IF S = {} THEN <<>>
    ELSE LET m == CHOOSE x \in S : \A y \in S : x <= y
         IN  <<m>> \o Ascending(S \ {m})

FailureCase(column, check, case, index) ==
    [column |-> column, check |-> check, failure_case |-> case, index |-> index]

\* comparing a str with a number raises TypeError; missing values are skipped
CheckRaises(check, series) ==
    check.kind = "in_range" /\ \E i \in 1..Len(series) : series[i].t = "str"

\* the check is False on the cell (missing cells are ignored by the check)
CheckFails(check, cell) ==
    CASE check.kind = "none" -> FALSE
      [] cell.t = "null" -> FALSE
      [] check.kind = "in_range" -> ~(check.lo <= cell.n /\ cell.n <= check.hi)
      [] check.kind = "isin" -> ~(cell.t = "num" /\ cell.n \in check.allowed)

CheckName(check) == check.kind

NullableFailures(rule, series) ==
    IF rule.nullable THEN <<>>
    ELSE LET bad == Ascending({i \in 1..Len(series) : series[i].t = "null"})
         IN  [k \in 1..Len(bad) |->
                 FailureCase(rule.name, "not_nullable", series[bad[k]], bad[k] - 1)]

DtypeFailures(rule, dtype) ==
    IF dtype = rule.dtype THEN <<>>
    ELSE <<FailureCase(rule.name, "dtype", Str(dtype), NoIndex)>>

CheckFailures(rule, series) ==
    IF CheckRaises(rule.check, series)
    THEN <<FailureCase(rule.name, CheckName(rule.check), Str("TypeError"), NoIndex)>>
    ELSE LET bad == Ascending({i \in 1..Len(series) : CheckFails(rule.check, series[i])})
         IN  [k \in 1..Len(bad) |->
                 FailureCase(rule.name, CheckName(rule.check), series[bad[k]], bad[k] - 1)]

\* everything the lazy validation collects for one schema column
ColumnFailures(rule, df) ==
    IF ~HasColumn(df, rule.name)
    THEN <<FailureCase(rule.name, "column_in_dataframe", Str(rule.name), NoIndex)>>
    ELSE LET series == Series(df, rule.name)
             dtype == df.dtypes[ColumnIndex(df, rule.name)]
         IN  NullableFailures(rule, series) \o DtypeFailures(rule, dtype)
                 \o CheckFailures(rule, series)

RECURSIVE LazyFailures(_, _, _)
\* schema.validate(df, lazy=True): the failure cases of every column, collected
LazyFailures(sch, k, df) ==
    IF k > Len(sch) THEN <<>>
    ELSE ColumnFailures(sch[k], df) \o LazyFailures(sch, k + 1, df)

NoFrame == [columns |-> <<>>, dtypes |-> <<>>, rows |-> <<>>]

ResultPair(has_df, df, has_errors, error_df) ==
    [status |-> "returned", has_df |-> has_df, validated_df |-> df,
     has_errors |-> has_errors, error_df |-> error_df]

validate_data_keep_table(merged_df, sch) ==
    LET failure_cases == LazyFailures(sch, 1, merged_df)
    IN  IF failure_cases = <<>>
        THEN ResultPair(TRUE, merged_df, FALSE, <<>>)
        ELSE ResultPair(TRUE, merged_df, TRUE, failure_cases)

\* lines 15-22: (validated_df, None), or (None, err.failure_cases) on SchemaErrors
validate_data(merged_df, sch) ==
    LET failure_cases == LazyFailures(sch, 1, merged_df)
    IN  IF failure_cases = <<>>
        THEN ResultPair(TRUE, merged_df, FALSE, <<>>)
        ELSE ResultPair(FALSE, NoFrame, TRUE, failure_cases)

----------------------------------------------------------------------------
(* Inputs of the validator *)

NumericNames == {schema[k].name : k \in 2..Len(schema)}

RuleOf(name) == schema[CHOOSE k \in 1..Len(schema) : schema[k].name = name]

\* the decimal texts of the sample values and the numbers they denote
Numeral ==
    ("1900" :> 1900) @@ ("1800" :> 1800) @@ ("12" :> 12) @@ ("13" :> 13) @@
    ("1" :> 1) @@ ("32" :> 32) @@ ("6000" :> 6000) @@ ("299" :> 299) @@
    ("2" :> 2) @@ ("3" :> 3)

TextOf(n) == CHOOSE s \in DOMAIN Numeral : Numeral[s] = n

\* per column one value its check accepts (on a bound of the range) and one it rejects
Samples(name) ==
    CASE name = "BIRTH_YEAR" -> {1900, 1800}
      [] name = "BIRTH_MNTH" -> {12, 13}
      [] name = "BIRTH_DAY" -> {1, 32}
      [] name = "BIRTH_WGHT" -> {6000, 299}
      [] name = "SEX" -> {2, 3}

NumCells(name) == {Num(n) : n \in Samples(name)}
TextCells(name) == {Str(TextOf(n)) : n \in Samples(name)}
LooseCells(name) == TextCells(name) \cup {Null, Str("x")}

AllColumns == [k \in 1..Len(schema) |-> schema[k].name]
ExampleColumns == <<"Filename", "BIRTH_YEAR", "BIRTH_MNTH", "SEX">>

FullRows(Pool(_)) ==
    {<<Str("f"), y, m, d, w, x>> :
        y \in Pool("BIRTH_YEAR"), m \in Pool("BIRTH_MNTH"), d \in Pool("BIRTH_DAY"),
        w \in Pool("BIRTH_WGHT"), x \in Pool("SEX")}

ExampleRows(Pool(_)) ==
    {<<Str("f"), y, m, x>> :
        y \in Pool("BIRTH_YEAR"), m \in Pool("BIRTH_MNTH"), x \in Pool("SEX")}

Frames(columns, dtypes, Rows) ==
    UNION {[columns : {columns}, dtypes : {dtypes}, rows : [1..r -> Rows]] :
           r \in 1..MaxTableRows}

DeclaredDtypes == [k \in 1..Len(schema) |-> schema[k].dtype]
InferredDtypes == [k \in 1..Len(schema) |-> IF k = 1 THEN "object" ELSE "int64"]
ObjectDtypes(columns) == [k \in 1..Len(columns) |-> "object"]

\* tables whose columns were cast to the declared dtypes
TypedTables == Frames(AllColumns, DeclaredDtypes, FullRows(NumCells))

\* tables of numbers as pandas infers them (int64)
InferredTables == Frames(AllColumns, InferredDtypes, FullRows(NumCells))

\* tables as merge_files builds them: every column holds str or None (dtype object)
MergedTables ==
    Frames(AllColumns, ObjectDtypes(AllColumns), FullRows(TextCells))
    \cup Frames(ExampleColumns, ObjectDtypes(ExampleColumns), ExampleRows(LooseCells))

InputTables == TypedTables \cup InferredTables \cup MergedTables

----------------------------------------------------------------------------
(* Actions of the validator *)

InitValidate ==
    /\ IdleMerge
    /\ IdleDedup
    /\ IdleSession
    /\ table \in InputTables
    /\ vres = NoCall

\* validated_df, validation_errors = validate_data(table, schema)
CallValidate ==
    /\ table # NoCall
    /\ vres = NoCall
    /\ vres' = validate_data(table, schema)
    /\ UNCHANGED <<table, mergeVars, dedupVars, sessionVars>>

NextValidate == CallValidate

SpecValidate == InitValidate /\ [][NextValidate]_vars

----------------------------------------------------------------------------
(* Claims about validate_data *)

Validated == vres # NoCall

IsMerged(df) == \A j \in 1..Len(df.dtypes) : df.dtypes[j] = "object"

HasEveryColumn(df) == \A k \in 1..Len(schema) : HasColumn(df, schema[k].name)

Parses(cell) == cell.t = "num" \/ (cell.t = "str" /\ cell.s \in DOMAIN Numeral)

ValueOf(cell) == IF cell.t = "num" THEN cell.n ELSE Numeral[cell.s]

Satisfies(check, n) ==
    CASE check.kind = "none" -> TRUE
      [] check.kind = "in_range" -> check.lo <= n /\ n <= check.hi
      [] check.kind = "isin" -> n \in check.allowed

\* the cell breaks the rule of its column: a value that is present and is not a
\* number, or is a number the range or set of the column excludes
Violates(rule, cell) ==
    /\ cell.t # "null"
    /\ ~(Parses(cell) /\ Satisfies(rule.check, ValueOf(cell)))

ViolatingCells(df) ==
    {<<i, name>> \in (1..Len(df.rows)) \X NumericNames :
        HasColumn(df, name) /\ Violates(RuleOf(name), Series(df, name)[i])}

ErrorCount == IF vres.has_errors THEN Len(vres.error_df) ELSE 0

\* C4: for a merged table that holds k violating cells, the error report of
\* validate_data holds exactly k records, one per violating cell.
C4_OneRecordPerViolation ==
    (Validated /\ IsMerged(table) /\ HasEveryColumn(table))
    => /\ ErrorCount = Cardinality(ViolatingCells(table))
       /\ \A v \in ViolatingCells(table) :
            \E e \in 1..ErrorCount :
                vres.error_df[e].column = v[2] /\ vres.error_df[e].index = v[1] - 1

\* the same for the tables whose columns already have the declared dtypes
C4_TypedTables ==
    (Validated /\ table.dtypes = DeclaredDtypes /\ HasEveryColumn(table))
    => /\ ErrorCount = Cardinality(ViolatingCells(table))
       /\ \A v \in ViolatingCells(table) :
            \E e \in 1..ErrorCount :
                vres.error_df[e].column = v[2] /\ vres.error_df[e].index = v[1] - 1

\* the schema accepts the column of the table as it is (no conversion)
ColumnConforms(rule, df) ==
    /\ HasColumn(df, rule.name)
    /\ df.dtypes[ColumnIndex(df, rule.name)] = rule.dtype
    /\ \A i \in 1..Len(df.rows) :
         LET cell == Series(df, rule.name)[i]
         IN  IF cell.t = "null" THEN rule.nullable
             ELSE rule.check.kind = "none"
                  \/ (cell.t = "num" /\ Satisfies(rule.check, cell.n))

Conforms(df) == \A k \in 1..Len(schema) : ColumnConforms(schema[k], df)

\* C5: validate_data returns either (the table, no errors), and it does so
\* exactly for a table without violations, or (no table, a non-empty error
\* list with a record for every violating column); never both, never neither.
C5_OneOfTwoShapes ==
    Validated
    => /\ vres.has_df # vres.has_errors
       /\ vres.has_df <=> Conforms(table)
       /\ vres.has_df => vres.validated_df = table
       /\ ~vres.has_df => vres.validated_df = NoFrame
       /\ vres.has_errors =>
            /\ vres.error_df # <<>>
            /\ \A k \in 1..Len(schema) :
                 ~ColumnConforms(schema[k], table)
                 => \E e \in 1..Len(vres.error_df) : vres.error_df[e].column = schema[k].name
       /\ ~vres.has_errors => vres.error_df = <<>>

\* a table with several violations came back as (None, errors)
C5_Witness ==
    /\ Validated
    /\ ~vres.has_df
    /\ vres.has_errors
    /\ Len(vres.error_df) >= 3
    /\ table.dtypes = DeclaredDtypes

\* a table without violations came back as (table, None)
C5_SuccessReached ==
    /\ Validated
    /\ vres.has_df
    /\ ~vres.has_errors

RecordsOf(name) == {e \in 1..ErrorCount : vres.error_df[e].column = name}

\* C6: for a table as merge_files builds it, a numeric schema column whose
\* strings all parse to numbers inside the column's range passes validation and
\* comes back converted to the declared type, and every string that does not
\* parse is recorded as a violation of its cell.
C6_CoercesStrings ==
    (Validated /\ IsMerged(table))
    => \A name \in NumericNames :
         HasColumn(table, name)
         => LET series == Series(table, name)
                rule == RuleOf(name)
            IN  /\ (\A i \in 1..Len(series) :
                       series[i].t = "str" /\ Parses(series[i])
                       /\ Satisfies(rule.check, ValueOf(series[i])))
                   => /\ RecordsOf(name) = {}
                      /\ vres.has_df =>
                           /\ vres.validated_df.dtypes[ColumnIndex(table, name)] = rule.dtype
                           /\ \A i \in 1..Len(series) :
                                Series(vres.validated_df, name)[i] = Num(ValueOf(series[i]))
                /\ \A i \in 1..Len(series) :
                     (series[i].t = "str" /\ ~Parses(series[i]))
                     => \E e \in RecordsOf(name) : vres.error_df[e].index = i - 1

----------------------------------------------------------------------------
(* Actions and claims of remove_duplicates *)

Elements == {"A", "B", "C"}

Result(value) == [status |-> "returned", value |-> value]

InitDedup ==
    /\ IdleMerge
    /\ IdleValidate
    /\ IdleSession
    /\ lst \in SeqsUpTo(Elements, MaxLen)
    /\ dd = NoCall
    /\ dd2 = NoCall

\* remove_duplicates(lst)
CallRemoveDuplicates ==
    /\ dd = NoCall
    /\ dd' = Result(remove_duplicates(lst))
    /\ UNCHANGED <<lst, dd2, mergeVars, validVars, sessionVars>>

\* remove_duplicates applied to its own result
CallRemoveDuplicatesAgain ==
    /\ dd # NoCall
    /\ dd2 = NoCall
    /\ dd2' = Result(remove_duplicates(dd.value))
    /\ UNCHANGED <<lst, dd, mergeVars, validVars, sessionVars>>

NextDedup == CallRemoveDuplicates \/ CallRemoveDuplicatesAgain

SpecDedup == InitDedup /\ [][NextDedup]_vars

FirstIndex(seq, x) == CHOOSE i \in 1..Len(seq) : seq[i] = x /\ \A j \in 1..(i - 1) : seq[j] # x

\* C10: remove_duplicates returns the distinct elements of its input in the
\* order of their first occurrence: no element is lost, none appears twice,
\* and a second application changes nothing.
C10_FirstOccurrenceOrder ==
    /\ dd # NoCall =>
         /\ {dd.value[i] : i \in 1..Len(dd.value)} = {lst[i] : i \in 1..Len(lst)}
         /\ \A i, j \in 1..Len(dd.value) : i # j => dd.value[i] # dd.value[j]
         /\ \A i, j \in 1..Len(dd.value) :
              i < j => FirstIndex(lst, dd.value[i]) < FirstIndex(lst, dd.value[j])
         /\ lst = <<"A", "B", "A", "C">> => dd.value = <<"A", "B", "C">>
    /\ dd2 # NoCall => dd2.value = dd.value

\* ["A","B","A","C"] gave ["A","B","C"], and so did the second application
C10_Witness ==
    /\ lst = <<"A", "B", "A", "C">>
    /\ dd # NoCall
    /\ dd.value = <<"A", "B", "C">>
    /\ dd2 # NoCall
    /\ dd2.value = <<"A", "B", "C">>

----------------------------------------------------------------------------
(* main: one run of the script, step by step *)

\* a run ends: on return, at the end of the script, or on an uncaught exception
EndRun ==
    /\ pc' = "idle"
    /\ run' = EmptyRun

Show(msg) == reported' = Append(reported, msg)

SessionSheetOne == [name |-> <<65>>, ncols |-> 1, rows |-> <<<<"A">>>>]
SessionSheetTwo == [name |-> <<66>>, ncols |-> 2, rows |-> <<<<"A", "B">>, <<"B", NaN>>>>]
\* what the Excel uploader can hold: nothing, one file, two files in either order
UploadLists ==
    {<<>>, <<SessionSheetTwo>>, <<SessionSheetOne, SessionSheetTwo>>,
     <<SessionSheetTwo, SessionSheetOne>>}
SessionFields == {"A", "B"}

\* configuration files written by hand: a record without a key, values only
HandWritten ==
    {JsonObject([data_header_idx |-> JNumber(1)]),
     JsonObject([data_col_idx |-> JNumber(1)]),
     JsonObject([data_header_idx |-> JNumber(1), data_col_idx |-> JNumber(0),
                 selected_headers |-> JArray(<<"B", "A", "B">>)]),
     JsonValue(JArray(<<"A">>)),
     JsonValue(JNull)}

ConfigFiles ==
    {NoFile, Garbage} \cup HandWritten
        \cup (IF download = NoFile THEN {} ELSE {download})

\* the script starts: the two file uploaders hold what the user put there
StartRun(config_file, uploaded_files) ==
    /\ pc = "idle"
    /\ runs < MaxRuns
    /\ runs' = runs + 1
    /\ pc' = "init"
    /\ run' = [EmptyRun EXCEPT !.config_file = config_file,
                               !.uploaded_files = uploaded_files]
    /\ reported' = <<>>
    /\ UNCHANGED <<ss, download, mergeVars, validVars, dedupVars>>

\* lines 132-142 (the keys are present after the first run)
InitSessionState ==
    /\ pc = "init"
    /\ ss' = [ss EXCEPT !.selected_headers = remove_duplicates(@)]
    /\ pc' = "load"
    /\ UNCHANGED <<run, download, reported, runs, mergeVars, validVars, dedupVars>>

\* config.get(key, default)
Get(config, key, default) == IF key \in DOMAIN config THEN FromJson(config[key]) ELSE default

\* lines 36-53 and 145-155
LoadConfiguration ==
    /\ pc = "load"
    /\ UNCHANGED <<download, runs, mergeVars, validVars, dedupVars>>
    /\ LET file == run.config_file
           config == file.members
       IN  CASE file.kind = "nofile" ->
                  /\ pc' = "columns"
                  /\ UNCHANGED <<ss, run, reported>>
             [] file.kind = "garbage" ->
                  \* json.load raises, load_configuration returns None
                  /\ Show("Error loading configuration")
                  /\ pc' = "columns"
                  /\ UNCHANGED <<ss, run>>
             [] file.kind = "value" /\ ~Truthy(FromJson(file.value)) ->
                  /\ Show("Configuration loaded successfully!")
                  /\ pc' = "columns"
                  /\ UNCHANGED <<ss, run>>
             [] file.kind = "value" /\ Truthy(FromJson(file.value)) ->
                  \* config['data_header_idx'] on a list, str or int
                  /\ reported' = reported \o <<"Configuration loaded successfully!", "TypeError">>
                  /\ EndRun
                  /\ UNCHANGED ss
             [] file.kind = "object" /\ DOMAIN config = {} ->
                  /\ Show("Configuration loaded successfully!")
                  /\ pc' = "columns"
                  /\ UNCHANGED <<ss, run>>
             [] file.kind = "object" /\ DOMAIN config # {}
                    /\ "data_header_idx" \notin DOMAIN config ->
                  /\ reported' = reported \o <<"Configuration loaded successfully!", "KeyError">>
                  /\ EndRun
                  /\ UNCHANGED ss
             [] file.kind = "object" /\ "data_header_idx" \in DOMAIN config
                    /\ "data_col_idx" \notin DOMAIN config ->
                  \* line 149 has written the session state when line 150 raises
                  /\ ss' = [ss EXCEPT !.data_header_idx = FromJson(config.data_header_idx)]
                  /\ reported' = reported \o <<"Configuration loaded successfully!", "KeyError">>
                  /\ EndRun
             [] file.kind = "object" /\ "data_header_idx" \in DOMAIN config
                    /\ "data_col_idx" \in DOMAIN config ->
                  LET loaded_headers == Get(config, "selected_headers", PyList(<<>>))
                  IN  /\ ss' = [ss EXCEPT
                                  !.data_header_idx = FromJson(config.data_header_idx),
                                  !.data_col_idx = FromJson(config.data_col_idx),
                                  !.selected_headers =
                                      IF Truthy(loaded_headers)
                                      THEN remove_duplicates(loaded_headers.a) ELSE <<>>,
                                  !.order = Get(config, "order", PyStr(ByFilename)).s,
                                  !.config_loaded = TRUE]
                      /\ Show("Configuration loaded successfully!")
                      /\ run' = [run EXCEPT !.loaded = TRUE]
                      /\ pc' = "columns"

\* x is not None and x in list(range(num_columns))
InOptions(x, num_columns) == x.py = "int" /\ x.n \in 0..(num_columns - 1)

Min2(a, b) == IF a <= b THEN a ELSE b

Widget(use, value) == [use |-> use, value |-> value]

\* a selectbox returns what the user chose, else the option at index
Selected(widget, default) == IF widget.use THEN widget.value ELSE default

\* lines 159-209: Step 1. The index of the second selectbox is computed from
\* data_header_idx alone; data_col_idx_index of lines 196-201 is not used.
SelectColumns(header_box, col_box) ==
    /\ pc = "columns"
    /\ UNCHANGED <<download, reported, runs, mergeVars, validVars, dedupVars>>
    /\ IF run.uploaded_files = <<>>
       THEN EndRun /\ UNCHANGED ss
       ELSE LET num_columns == run.uploaded_files[1].ncols
                data_header_idx_index ==
                    IF InOptions(ss.data_header_idx, num_columns)
                    THEN ss.data_header_idx.n ELSE 0
                data_header_idx == Selected(header_box, data_header_idx_index)
                data_col_idx == Selected(col_box, Min2(data_header_idx + 1, num_columns - 1))
            IN  /\ header_box.use => header_box.value < num_columns
                /\ col_box.use => col_box.value < num_columns
                /\ ss' = [ss EXCEPT !.data_header_idx = PyInt(data_header_idx),
                                    !.data_col_idx = PyInt(data_col_idx)]
                /\ run' = [run EXCEPT !.data_header_idx = data_header_idx,
                                      !.data_col_idx = data_col_idx,
                                      !.picked = header_box.use \/ col_box.use]
                /\ pc' = "headers"

\* df.iloc[:, h].dropna().astype(str).tolist()
HeaderCells(file, h) == SelectSeq(Column(file, h), LAMBDA cell : cell # NaN)

RECURSIVE AllHeaders(_, _)
AllHeaders(fs, h) ==
    IF fs = <<>> THEN <<>> ELSE HeaderCells(Head(fs), h) \o AllHeaders(Tail(fs), h)

\* lines 211-250: Step 2
SelectHeaders(editor) ==
    /\ pc = "headers"
    /\ UNCHANGED <<download, runs, mergeVars, validVars, dedupVars>>
    /\ LET fs == run.uploaded_files
           short == {i \in 1..Len(fs) :
                        fs[i].ncols <= Max2(run.data_header_idx, run.data_col_idx)}
           all_headers == remove_duplicates(AllHeaders(fs, run.data_header_idx))
           session_headers == remove_duplicates(ss.selected_headers)
           preselected == IF ss.selected_headers # <<>>
                          THEN {x \in SessionFields : Contains(session_headers, x)}
                          ELSE SessionFields
           chosen == Selected(editor, preselected)
           selected_headers ==
               remove_duplicates(SelectSeq(all_headers, LAMBDA x : x \in chosen))
       IN  IF short # {}
           THEN /\ Show("File does not have enough columns.")
                /\ EndRun
                /\ UNCHANGED ss
           ELSE /\ ss' = [ss EXCEPT !.selected_headers = session_headers]
                /\ run' = [run EXCEPT !.selected_headers = selected_headers]
                /\ pc' = "reorder"
                /\ UNCHANGED reported

Reverse(seq) == [i \in 1..Len(seq) |-> seq[Len(seq) + 1 - i]]

\* lines 253-279: Step 3. sort_items returns the items in the user's order
ReorderHeaders(dragged) ==
    /\ pc = "reorder"
    /\ UNCHANGED <<ss, download, runs, mergeVars, validVars, dedupVars>>
    /\ LET selected_headers == run.selected_headers
           kept == SelectSeq(ss.selected_headers, LAMBDA x : Contains(selected_headers, x))
           unsorted_headers ==
               IF ss.selected_headers # <<>>
               THEN remove_duplicates(
                        kept \o SelectSeq(selected_headers, LAMBDA x : ~Contains(kept, x)))
               ELSE selected_headers
           sorted_headers ==
               remove_duplicates(IF dragged THEN Reverse(unsorted_headers)
                                 ELSE unsorted_headers)
       IN  IF selected_headers # <<>>
           THEN /\ run' = [run EXCEPT !.sorted_headers = sorted_headers]
                /\ UNCHANGED reported
           ELSE /\ run' = [run EXCEPT !.sorted_headers = <<>>]
                /\ Show("Please select at least one header.")
    /\ pc' = "order"

\* lines 282-290: Step 4
OrderRows(order_box) ==
    /\ pc = "order"
    /\ LET default_order == IF ss.order = Unset THEN ByFilename ELSE ss.order
           order == Selected(order_box,
                             IF default_order = ByFilename THEN ByFilename ELSE ByLastWord)
       IN  /\ ss' = [ss EXCEPT !.order = order]
           /\ run' = [run EXCEPT !.order = order]
    /\ pc' = "save"
    /\ UNCHANGED <<download, reported, runs, mergeVars, validVars, dedupVars>>

\* lines 292-307: the configuration is serialized; a click downloads it
SaveConfiguration(clicked) ==
    /\ pc = "save"
    /\ LET config == [data_header_idx |-> PyInt(run.data_header_idx),
                      data_col_idx |-> PyInt(run.data_col_idx),
                      selected_headers |-> PyList(run.sorted_headers),
                      order |-> PyStr(run.order)]
           config_json == json_dumps(config)
       IN  download' = IF clicked THEN config_json ELSE download
    /\ pc' = "merge"
    /\ UNCHANGED <<ss, run, reported, runs, mergeVars, validVars, dedupVars>>

MergeFilesForgetting(clicked) ==
    /\ pc = "merge"
    /\ UNCHANGED <<download, runs, mergeVars, validVars, dedupVars>>
    /\ IF ~clicked
       THEN /\ pc' = "display"
            /\ UNCHANGED <<ss, run, reported>>
       ELSE IF run.sorted_headers = <<>>
       THEN /\ Show("No headers selected.")
            /\ pc' = "display"
            /\ ss' = [ss EXCEPT !.has_merged = FALSE, !.merged_df = NoTable,
                                !.sorted_headers = <<>>]
            /\ UNCHANGED run
       ELSE LET merged_df == merge_files(run.uploaded_files, run.data_header_idx,
                                         run.data_col_idx, run.sorted_headers, run.order)
                sorted_in_place == [run EXCEPT !.uploaded_files = FilesAfter(@, run.order)]
            IN  /\ ss' = [ss EXCEPT
                            !.has_merged = TRUE,
                            !.merged_df = [columns |-> merged_df.columns,
                                           rows |-> merged_df.rows],
                            !.sorted_headers = run.sorted_headers]
                /\ run' = sorted_in_place
                /\ pc' = "display"
                /\ UNCHANGED reported

\* lines 309-327: the Merge Files button
MergeFiles(clicked) ==
    /\ pc = "merge"
    /\ UNCHANGED <<download, runs, mergeVars, validVars, dedupVars>>
    /\ IF ~clicked
       THEN /\ pc' = "display"
            /\ UNCHANGED <<ss, run, reported>>
       ELSE IF run.sorted_headers = <<>>
       THEN /\ Show("No headers selected.")
            /\ pc' = "display"
            /\ UNCHANGED <<ss, run>>
       ELSE LET merged_df == merge_files(run.uploaded_files, run.data_header_idx,
                                         run.data_col_idx, run.sorted_headers, run.order)
                sorted_in_place == [run EXCEPT !.uploaded_files = FilesAfter(@, run.order)]
            IN  IF merged_df.status = "raised"
                THEN /\ Show(merged_df.exc)
                     /\ EndRun
                     /\ UNCHANGED ss
                ELSE IF IsEmptyFrame(merged_df)
                THEN /\ reported' = reported \o <<"File does not have enough columns.",
                                                  "Merging failed. No data to validate.">>
                     /\ run' = sorted_in_place
                     /\ pc' = "display"
                     /\ UNCHANGED ss
                ELSE /\ ss' = [ss EXCEPT
                                 !.has_merged = TRUE,
                                 !.merged_df = [columns |-> merged_df.columns,
                                                rows |-> merged_df.rows],
                                 !.sorted_headers = run.sorted_headers]
                     /\ run' = sorted_in_place
                     /\ pc' = "display"
                     /\ UNCHANGED reported

\* a cell of the merged table as a DataFrame cell
FrameCell(x) == IF x = None THEN Null ELSE Str(x)

\* pd.DataFrame(merged_data, columns=headers): str and None give dtype object
FrameOf(m) ==
    [columns |-> m.columns,
     dtypes |-> [j \in 1..Len(m.columns) |-> "object"],
     rows |-> [i \in 1..Len(m.rows) |->
                 [j \in 1..Len(m.rows[i]) |->
                     IF j = 1 THEN Str(m.rows[i][j]) ELSE FrameCell(m.rows[i][j])]]]

\* lines 329-377: the stored table is shown and validated (shown unedited)
DisplayMerged ==
    /\ pc = "display"
    /\ IF ss.has_merged
       THEN /\ table' = FrameOf(ss.merged_df)
            /\ vres' = validate_data(FrameOf(ss.merged_df), schema)
            /\ Show(IF vres'.has_df THEN "Data validation passed!"
                    ELSE "Data validation failed.")
       ELSE UNCHANGED <<table, vres, reported>>
    /\ EndRun
    /\ UNCHANGED <<ss, download, runs, mergeVars, dedupVars>>

\* the browser session is over, the next run starts a new one
NewSession ==
    /\ pc = "idle"
    /\ runs > 0
    /\ ss # InitialSession
    /\ ss' = InitialSession
    /\ UNCHANGED <<pc, run, download, reported, runs, mergeVars, validVars, dedupVars>>

Boxes(values) == {Widget(FALSE, 0)} \cup {Widget(TRUE, v) : v \in values}

Start ==
    \E cf \in ConfigFiles, ups \in UploadLists : StartRun(cf, ups)

Step1 == \E hb \in Boxes({0, 1}), cb \in Boxes({0, 1}) : SelectColumns(hb, cb)

Step2 ==
    \E ed \in {Widget(FALSE, {}), Widget(TRUE, {}), Widget(TRUE, {"B"})} :
        SelectHeaders(ed)

Step3 == \E dragged \in BOOLEAN : ReorderHeaders(dragged)

Step4 == \E ob \in {Widget(FALSE, "")} \cup {Widget(TRUE, o) : o \in Orders} : OrderRows(ob)

Save == \E clicked \in BOOLEAN : SaveConfiguration(clicked)

Merge == \E clicked \in BOOLEAN : MergeFiles(clicked)

NextSession ==
    \/ Start
    \/ InitSessionState
    \/ LoadConfiguration
    \/ Step1
    \/ Step2
    \/ Step3
    \/ Step4
    \/ Save
    \/ Merge
    \/ DisplayMerged
    \/ NewSession

InitSession == IdleMerge /\ IdleValidate /\ IdleDedup /\ IdleSession

SpecSession == InitSession /\ [][NextSession]_vars

----------------------------------------------------------------------------
(* Claims about the configuration *)

ConfigState ==
    <<ss.data_header_idx, ss.data_col_idx, ss.selected_headers, ss.order, ss.config_loaded>>

\* the file is no JSON, or the record in it lacks one of the two index keys
Malformed(file) ==
    \/ file.kind = "garbage"
    \/ /\ file.kind = "object"
       /\ ("data_header_idx" \notin DOMAIN file.members
           \/ "data_col_idx" \notin DOMAIN file.members)

ErrorShown(shown) ==
    \E i \in 1..Len(shown) : shown[i] \in {"Error loading configuration", "KeyError"}

\* the configuration in the file came out of the save step of some run
SavedByApp(file) == file # NoFile /\ file = download

\* C8: a configuration written by the save step (h, c, L, order), loaded into a
\* session whose sample file has more than max(h, c) columns, leaves the session
\* after the column selection step (no selectbox touched) with
\* data_header_idx = h, data_col_idx = c and selected_headers = L de-duplicated.
C8_RoundTrip ==
    (/\ pc = "headers"
     /\ run.loaded
     /\ ~run.picked
     /\ SavedByApp(run.config_file)
     /\ run.uploaded_files[1].ncols >
            Max2(run.config_file.members.data_header_idx.n,
                 run.config_file.members.data_col_idx.n))
    => /\ ss.data_header_idx = PyInt(run.config_file.members.data_header_idx.n)
       /\ ss.data_col_idx = PyInt(run.config_file.members.data_col_idx.n)
       /\ ss.selected_headers = remove_duplicates(run.config_file.members.selected_headers.a)

\* what does survive the round trip: the header index and the field list
C8_HeaderIndexAndFields ==
    (/\ pc = "headers"
     /\ run.loaded
     /\ ~run.picked
     /\ SavedByApp(run.config_file)
     /\ run.uploaded_files[1].ncols >
            Max2(run.config_file.members.data_header_idx.n,
                 run.config_file.members.data_col_idx.n))
    => /\ ss.data_header_idx = PyInt(run.config_file.members.data_header_idx.n)
       /\ ss.selected_headers = remove_duplicates(run.config_file.members.selected_headers.a)

\* C9: loading a malformed configuration file is reported as an error and
\* changes none of data_header_idx, data_col_idx, selected_headers, order and
\* config_loaded.
C9_MalformedLoadChangesNothing ==
    [][(pc = "load" /\ Malformed(run.config_file))
        => (ConfigState' = ConfigState /\ ErrorShown(reported'))]_vars

\* the part of C9 about the session state alone
C9_StateUnchanged ==
    [][(pc = "load" /\ Malformed(run.config_file)) => ConfigState' = ConfigState]_vars

----------------------------------------------------------------------------
(* Claims about the stored merged table *)

\* what the session keeps of a merge: lines 326-327
Stored == <<ss.has_merged, ss.merged_df, ss.sorted_headers>>

\* what merge_files returns for the widgets' values of the current run
MergeAttempt ==
    merge_files(run.uploaded_files, run.data_header_idx, run.data_col_idx,
                run.sorted_headers, run.order)

\* a click in the current run cannot store a table: no header is selected, or
\* merge_files raises or returns an empty table
AttemptFails ==
    \/ run.sorted_headers = <<>>
    \/ MergeAttempt.status = "raised"
    \/ IsEmptyFrame(MergeAttempt)

====
